---- MODULE Spec2Model ----
(***************************************************************************)
(* Proxi MCP server: the policy engine (src/guardrails/policy_engine.py),  *)
(* the mock infrastructure (src/mcp_server/tools.py) and the gateway       *)
(* endpoints (src/mcp_server/server.py), as one state machine.             *)
(*                                                                         *)
(* Each endpoint is one atomic action: the handlers are coroutines without *)
(* an await inside, so the event loop runs each of them to completion.     *)
(***************************************************************************)
EXTENDS Integers, Sequences, FiniteSets, TLC

VARIABLES
    policy,              \* PolicyEngine.policy (loaded once, never written)
    current_mode,        \* PolicyEngine.current_mode
    unhealthy_services,  \* PolicyEngine.unhealthy_services
    services,            \* CloudInfrastructure.services
    fleet_size,          \* CloudInfrastructure.fleet_size
    execution_log,       \* CloudInfrastructure.execution_log (action names)
    response,            \* the last request and what the server answered
    in_flight            \* tool requests received and not yet answered

vars == <<policy, current_mode, unhealthy_services, services, fleet_size,
          execution_log, response, in_flight>>

(***************************************************************************)
(* Bounds of the model.                                                    *)
(***************************************************************************)
\* Runs are cut when the execution log would grow beyond this length.
MaxLog == 4

\* The number of tool requests that are in flight at once.
MaxInFlight == 2

\* The number of actions logged on a log that starts near its cap.
MaxAppends == 3

(***************************************************************************)
(* Program constants.                                                      *)
(***************************************************************************)
LogCap == 100
InitialFleetSize == 3
MinFleet == 1
MaxFleet == 100

\* Python's None, as an argument value and as a missing result.
None == "<None>"

\* The services the infrastructure is constructed with.
ServiceNames == {"web-server", "api-gateway", "database", "cache", "load-balancer"}

\* Keys of tool_map.
ToolMap == {"get_service_status", "read_logs", "restart_service",
            "scale_fleet", "delete_database", "list_services"}

(***************************************************************************)
(* Inputs the requests are drawn from.                                     *)
(***************************************************************************)
\* A known service, an unknown one, and an unknown one whose name has the
\* substring "success".
Targets == {"web-server", "ghost", "success-svc"}

\* A service_name that is a JSON list of two names, not a string; api-gateway
\* is never broken in the runs, so one of its members is always healthy.
TargetList == "['web-server', 'api-gateway']"

ListMembers == {"web-server", "api-gateway"}

\* isinstance(v, list): such a value is unhashable.
IsList(v) == v = TargetList

\* Values a request carries for service_name: a name, the empty string, None.
NameValues == Targets \cup {"", None}

\* Health values an incident simulation is asked to set.
Statuses == {"healthy", "degraded", "critical", "unknown"}

\* Tool names a request carries: the tools of tool_map and one that is none.
ToolNames == ToolMap \cup {"drop_tables"}

\* Mode names a mode change is asked for.
ModeNames == {"NORMAL", "EMERGENCY", "MAINTENANCE", "BOGUS"}

\* execution_mode values of a request.
ExecutionModes == {"REAL", "SHADOW", "shadow", "", "DRYRUN"}

\* Context maps a request carries: none, an empty one, and one that asks for
\* the checks to be skipped.
Contexts == {None, "{}", "{'override': True}"}

\* An argument map: the keys it carries, and the values of service_name and
\* count (None and 0 when the key is absent); the values of db_name and lines
\* are never read by the server.
Args(keys, service_name, count) ==
    [keys |-> keys, service_name |-> service_name, count |-> count]

ArgMaps ==
    {Args({}, None, 0), Args({"db_name"}, None, 0), Args({"lines"}, None, 0)}
    \cup {Args({"count"}, None, c) : c \in {0, 5}}
    \cup {Args({"service_name"}, n, 0) : n \in NameValues}
    \cup {Args({"service_name", "count"}, n, 5) : n \in Targets}
    \cup {Args({"service_name", "db_name"}, n, 0) : n \in Targets}

Request(tool_name, arguments, execution_mode) ==
    [tool_name |-> tool_name, arguments |-> arguments,
     execution_mode |-> execution_mode]

\* Every request over the inputs above: the domain the handlers' properties
\* are quantified over.
Requests ==
    {Request(t, a, em) : t \in ToolNames, a \in ArgMaps, em \in ExecutionModes}

\* The requests the runs are built from.
StepRequests ==
    {Request(t, Args({}, None, 0), "REAL") :
        t \in {"get_service_status", "restart_service", "drop_tables"}}
    \cup {Request("restart_service", Args({"service_name"}, n, 0), "REAL") :
            n \in Targets}
    \cup {Request("get_service_status", Args({"service_name"}, n, 0), "REAL") :
            n \in {"web-server", "ghost"}}
    \cup {Request("restart_service", Args({"service_name"}, "web-server", 0), em) :
            em \in {"shadow", "DRYRUN"}}
    \cup {Request("restart_service", Args({"service_name"}, TargetList, 0), "REAL")}
    \cup {Request("scale_fleet", Args({"count"}, None, 5), "REAL"),
          Request("scale_fleet", Args({"service_name", "count"}, "web-server", 5), "REAL"),
          Request("scale_fleet", Args({"service_name"}, "web-server", 0), "SHADOW"),
          Request("scale_fleet", Args({"service_name", "count"}, "web-server", 5), "SHADOW"),
          Request("get_service_status", Args({}, None, 0), "SHADOW"),
          Request("get_service_status", Args({"service_name"}, "web-server", 0), "SHADOW"),
          Request("list_services", Args({}, None, 0), "SHADOW"),
          Request("delete_database", Args({"db_name"}, None, 0), "REAL")}

\* Mutant: the service_name of a map that also names a database is not read.
ArgServiceName_unless_db_name(args) ==
    IF "service_name" \in args.keys /\ "db_name" \notin args.keys
    THEN args.service_name ELSE None

\* arguments.get('service_name')
ArgServiceName(args) ==
    IF "service_name" \in args.keys THEN args.service_name ELSE None

\* Python truthiness of a service_name value.
Truthy(v) == v # None /\ v # ""

\* "success" in name.lower(), over the names the requests carry.
ContainsSuccess(name) == name \in {"success-svc"}

\* str.upper(), over the execution_mode values the requests carry.
Upper(s) == IF s = "shadow" THEN "SHADOW" ELSE s

(***************************************************************************)
(* The policy document (policies/ops_policy.json).                         *)
(***************************************************************************)
ReadTools == {"get_service_status", "list_services", "read_logs"}

ModePolicy(allowed, blocked, rationale, enabled) ==
    [allowed_tools |-> allowed, blocked_tools |-> blocked,
     rationale |-> rationale, restrictions_enabled |-> enabled]

\* The document the server is deployed with: NORMAL is read-only, EMERGENCY
\* allows the corrective tools with the service restriction enabled, and
\* delete_database is blocked everywhere.
OpsPolicy ==
    [always_blocked |-> {"delete_database"},
     modes |->
        [m \in {"NORMAL", "EMERGENCY"} |->
            IF m = "NORMAL"
            THEN ModePolicy(ReadTools,
                            {"restart_service", "scale_fleet", "delete_database"},
                            "NORMAL mode is read-only", FALSE)
            ELSE ModePolicy(ReadTools \cup {"restart_service", "scale_fleet"},
                            {"delete_database"},
                            "EMERGENCY mode forbids destructive operations", TRUE)]]

\* OpsPolicy with a third mode that enables the service restriction too.
MaintenancePolicy ==
    [always_blocked |-> {"delete_database"},
     modes |->
        [m \in {"NORMAL", "EMERGENCY", "MAINTENANCE"} |->
            IF m = "MAINTENANCE"
            THEN ModePolicy({"get_service_status", "restart_service"},
                            {"scale_fleet"},
                            "MAINTENANCE mode allows restarts only", TRUE)
            ELSE OpsPolicy.modes[m]]]

\* A permissive document: the modes whitelist what the global rules block,
\* NORMAL allows mutations and blocks a read tool, EMERGENCY does not enable
\* the service restriction.
LaxPolicy ==
    [always_blocked |-> {"delete_database", "scale_fleet"},
     modes |->
        [m \in {"NORMAL", "EMERGENCY"} |->
            IF m = "NORMAL"
            THEN ModePolicy({"restart_service", "scale_fleet", "delete_database",
                             "read_logs"},
                            {"list_services", "get_service_status"},
                            "NORMAL mode hides the inventory", FALSE)
            ELSE ModePolicy({"restart_service", "delete_database", "read_logs"},
                            {"scale_fleet"},
                            "EMERGENCY mode never scales", FALSE)]]

\* OpsPolicy with an EMERGENCY mode that lists restart_service both as
\* allowed and as blocked.
ConflictPolicy ==
    [always_blocked |-> {"delete_database"},
     modes |->
        [m \in {"NORMAL", "EMERGENCY"} |->
            IF m = "EMERGENCY"
            THEN ModePolicy(ReadTools \cup {"restart_service", "scale_fleet"},
                            {"restart_service", "delete_database"},
                            "EMERGENCY mode forbids restarts", TRUE)
            ELSE OpsPolicy.modes[m]]]

\* The documents the engine is constructed with.
PolicyDocs == {OpsPolicy, MaintenancePolicy, LaxPolicy, ConflictPolicy}

(***************************************************************************)
(* PolicyEngine                                                            *)
(***************************************************************************)
Allow == [allowed |-> TRUE, reason |-> None, message |-> None]

\* PolicyViolationError(message, reason=...)
Deny(reason, message) == [allowed |-> FALSE, reason |-> reason, message |-> message]

\* validate left by an exception that is not a PolicyViolationError: the
\* TypeError of a set membership test on an unhashable value.
Crash == [allowed |-> FALSE, reason |-> None, message |-> "TypeError"]

_is_modification_tool(tool_name) ==
    tool_name \in {"restart_service", "scale_fleet", "delete_database"}

\* The five checks of validate, in the order of the code.
globally_blocked(pol, tool_name) == tool_name \in pol.always_blocked

\* Mutant: the mode's blocked_tools list is not consulted.
mode_blocked_never(mode_policy, tool_name) == FALSE

mode_blocked(mode_policy, tool_name) == tool_name \in mode_policy.blocked_tools

not_whitelisted(mode_policy, tool_name) == tool_name \notin mode_policy.allowed_tools

\* Mutant: only an absent service_name counts as missing, an empty one passes.
missing_target_absent_only(tool_name, service_name) ==
    _is_modification_tool(tool_name) /\ service_name = None

missing_target(tool_name, service_name) ==
    _is_modification_tool(tool_name) /\ ~Truthy(service_name)

\* The membership test of the health gate is reached with a list.
membership_raises(mode, mode_policy, tool_name, service_name) ==
    /\ _is_modification_tool(tool_name)
    /\ mode = "EMERGENCY"
    /\ mode_policy.restrictions_enabled
    /\ IsList(service_name)

\* Mutant: the membership test of the health gate inverted.
target_healthy_inverted(mode, mode_policy, unhealthy, tool_name, service_name) ==
    /\ _is_modification_tool(tool_name)
    /\ mode = "EMERGENCY"
    /\ mode_policy.restrictions_enabled
    /\ service_name \in unhealthy

target_healthy(mode, mode_policy, unhealthy, tool_name, service_name) ==
    /\ _is_modification_tool(tool_name)
    /\ mode = "EMERGENCY"
    /\ mode_policy.restrictions_enabled
    /\ service_name \notin unhealthy

\* Mutant: validate consults the whitelist before the mode's blocked_tools.
validate_whitelist_first(pol, mode, unhealthy, tool_name, args) ==
    LET mode_policy  == pol.modes[mode]
        service_name == ArgServiceName(args)
    IN  IF globally_blocked(pol, tool_name)
        THEN Deny("Globally blocked", "permanently blocked")
        ELSE IF not_whitelisted(mode_policy, tool_name)
        THEN Deny("Not in allowed tools list", "not whitelisted")
        ELSE IF mode_blocked(mode_policy, tool_name)
        THEN Deny(mode_policy.rationale, "blocked in mode")
        ELSE IF missing_target(tool_name, service_name)
        THEN Deny("Missing service target", "requires a service_name parameter")
        ELSE IF membership_raises(mode, mode_policy, tool_name, service_name)
        THEN Crash
        ELSE IF target_healthy(mode, mode_policy, unhealthy, tool_name, service_name)
        THEN Deny("Target service is not unhealthy", "service is healthy")
        ELSE Allow

\* Mutant: validate allows every request.
validate_allow_all(pol, mode, unhealthy, tool_name, args) == Allow

\* Mutant: validate without the global block.
validate_ignoring_global(pol, mode, unhealthy, tool_name, args) ==
    LET mode_policy  == pol.modes[mode]
        service_name == ArgServiceName(args)
    IN  IF mode_blocked(mode_policy, tool_name)
        THEN Deny(mode_policy.rationale, "blocked in mode")
        ELSE IF not_whitelisted(mode_policy, tool_name)
        THEN Deny("Not in allowed tools list", "not whitelisted")
        ELSE IF missing_target(tool_name, service_name)
        THEN Deny("Missing service target", "requires a service_name parameter")
        ELSE IF membership_raises(mode, mode_policy, tool_name, service_name)
        THEN Crash
        ELSE IF target_healthy(mode, mode_policy, unhealthy, tool_name, service_name)
        THEN Deny("Target service is not unhealthy", "service is healthy")
        ELSE Allow

\* Mutant: validate that never consults the mode's tool lists.
validate_ignoring_mode(pol, mode, unhealthy, tool_name, args) ==
    LET mode_policy  == pol.modes[mode]
        service_name == ArgServiceName(args)
    IN  IF globally_blocked(pol, tool_name)
        THEN Deny("Globally blocked", "permanently blocked")
        ELSE IF missing_target(tool_name, service_name)
        THEN Deny("Missing service target", "requires a service_name parameter")
        ELSE IF membership_raises(mode, mode_policy, tool_name, service_name)
        THEN Crash
        ELSE IF target_healthy(mode, mode_policy, unhealthy, tool_name, service_name)
        THEN Deny("Target service is not unhealthy", "service is healthy")
        ELSE Allow

\* PolicyEngine.validate on the engine state (pol, mode, unhealthy): Allow when
\* it returns True, Deny when it raises PolicyViolationError, Crash when it
\* raises TypeError.
validate(pol, mode, unhealthy, tool_name, args) ==
    LET mode_policy  == pol.modes[mode]
        service_name == ArgServiceName(args)
    IN  IF globally_blocked(pol, tool_name)
        THEN Deny("Globally blocked", "permanently blocked")
        ELSE IF mode_blocked(mode_policy, tool_name)
        THEN Deny(mode_policy.rationale, "blocked in mode")
        ELSE IF not_whitelisted(mode_policy, tool_name)
        THEN Deny("Not in allowed tools list", "not whitelisted")
        ELSE IF missing_target(tool_name, service_name)
        THEN Deny("Missing service target", "requires a service_name parameter")
        ELSE IF membership_raises(mode, mode_policy, tool_name, service_name)
        THEN Crash
        ELSE IF target_healthy(mode, mode_policy, unhealthy, tool_name, service_name)
        THEN Deny("Target service is not unhealthy", "service is healthy")
        ELSE Allow

\* validate as it is called, with the context parameter: the context is
\* defaulted to an empty map and never read.
validate_in_context(pol, mode, unhealthy, tool_name, args, context) ==
    validate(pol, mode, unhealthy, tool_name, args)

\* Mutant: the registration is not written to the set.
register_unhealthy_service_dropped(unhealthy, service_name) == unhealthy

register_unhealthy_service(unhealthy, service_name) == unhealthy \cup {service_name}

\* Mutant: the service is left in the unhealthy set.
mark_service_healthy_forgotten(unhealthy, service_name) == unhealthy

mark_service_healthy(unhealthy, service_name) == unhealthy \ {service_name}

(***************************************************************************)
(* CloudInfrastructure, on a record infra of its three fields.             *)
(***************************************************************************)
Infra(svcs, fleet, log) ==
    [services |-> svcs, fleet_size |-> fleet, execution_log |-> log]

\* What a tool function returns: the dictionary's status, and the service
\* name its text echoes (None when it echoes none).
Result(status, echo) == [status |-> status, echo |-> echo]

\* Mutant: the log is appended to and never cut.
_log_action_unbounded(infra, action) ==
    [infra EXCEPT !.execution_log = Append(infra.execution_log, action)]

_log_action(infra, action) ==
    LET log == Append(infra.execution_log, action)
    IN  [infra EXCEPT !.execution_log =
            IF Len(log) > LogCap
            THEN SubSeq(log, Len(log) - LogCap + 1, Len(log))
            ELSE log]

set_service_health(infra, service, status) ==
    IF service \in DOMAIN infra.services
    THEN _log_action([infra EXCEPT !.services[service] = status], "health_change")
    ELSE infra

get_unhealthy_services(infra) ==
    {name \in DOMAIN infra.services : infra.services[name] \in {"critical", "degraded"}}

\* The tool functions return the pair of the infrastructure they leave and
\* their result.
get_service_status(infra, service_name) ==
    LET logged == _log_action(infra, "get_service_status")
    IN  IF Truthy(service_name) /\ service_name \notin DOMAIN infra.services
        THEN [infra |-> logged, result |-> Result("error", service_name)]
        ELSE [infra |-> logged, result |-> Result("ok", service_name)]

list_services(infra) ==
    [infra |-> _log_action(infra, "list_services"), result |-> Result("ok", None)]

read_logs(infra) ==
    [infra |-> _log_action(infra, "read_logs"), result |-> Result("ok", None)]

\* restart_service: with a list, the lookup in self.services raises TypeError
\* after the action was logged (result status None stands for the raise).
restart_service(infra, service_name) ==
    LET logged == _log_action(infra, "restart_service")
    IN  IF IsList(service_name)
        THEN [infra |-> logged, result |-> Result(None, None)]
        ELSE IF service_name \notin DOMAIN infra.services
        THEN [infra |-> logged, result |-> Result("error", service_name)]
        ELSE [infra  |-> [logged EXCEPT !.services[service_name] = "healthy"],
              result |-> Result("success", service_name)]

scale_fleet(infra, count) ==
    LET logged == _log_action(infra, "scale_fleet")
    IN  IF count < MinFleet \/ count > MaxFleet
        THEN [infra |-> logged, result |-> Result("error", None)]
        ELSE [infra  |-> [logged EXCEPT !.fleet_size = count],
              result |-> Result("success", None)]

delete_database(infra) ==
    [infra  |-> _log_action(infra, "delete_database_attempt"),
     result |-> Result("error", None)]

\* Mutant: the text is searched for "Success" without lower-casing it.
StrHasSuccess_case_sensitive(result) == result.status = "Success"

\* "success" in str(result).lower(): the status word, or the echoed name.
StrHasSuccess(result) ==
    result.status = "success" \/ (result.echo # None /\ ContainsSuccess(result.echo))

(***************************************************************************)
(* ImpactSimulator                                                         *)
(***************************************************************************)
\* ImpactSimulator.simulate builds a report and writes nothing; it raises
\* TypeError on a scale_fleet request without a count (None - int).
simulate_raises(tool_name, args) ==
    tool_name = "scale_fleet" /\ "count" \notin args.keys

(***************************************************************************)
(* The gateway (server.py).                                                *)
(***************************************************************************)
\* Whether tool_function(**arguments) binds: the keyword arguments must fit
\* the function's signature, else Python raises TypeError before the body.
Binds(tool_name, keys) ==
    CASE tool_name = "get_service_status" -> keys \subseteq {"service_name"}
      [] tool_name = "read_logs"          -> keys \subseteq {"lines"}
      [] tool_name = "restart_service"    -> keys = {"service_name"}
      [] tool_name = "scale_fleet"        -> keys = {"count"}
      [] tool_name = "delete_database"    -> keys = {"db_name"}
      [] tool_name = "list_services"      -> keys = {}
      [] OTHER                            -> FALSE

\* _execute_tool_function: raised is None when it returns, else the
\* ValueError it raises; a TypeError from inside the tool function is turned
\* into the same ValueError as one from binding the arguments.
_execute_tool_function(infra, tool_name, args) ==
    IF tool_name \notin ToolMap
    THEN [raised |-> "Unknown tool", infra |-> infra, result |-> Result(None, None)]
    ELSE IF ~Binds(tool_name, args.keys)
    THEN [raised |-> "Invalid arguments", infra |-> infra, result |-> Result(None, None)]
    ELSE LET ran ==
                CASE tool_name = "get_service_status" ->
                        get_service_status(infra, ArgServiceName(args))
                  [] tool_name = "read_logs"       -> read_logs(infra)
                  [] tool_name = "restart_service" -> restart_service(infra, args.service_name)
                  [] tool_name = "scale_fleet"     -> scale_fleet(infra, args.count)
                  [] tool_name = "delete_database" -> delete_database(infra)
                  [] OTHER                         -> list_services(infra)
         IN  IF ran.result.status = None
             THEN [raised |-> "Invalid arguments", infra |-> ran.infra,
                   result |-> Result(None, None)]
             ELSE [raised |-> None, infra |-> ran.infra, result |-> ran.result]

\* Mutant: a broken service that is already registered is taken out again.
_update_unhealthy_services_toggling(unhealthy, infra, service_name) ==
    IF service_name = None
    THEN (unhealthy \cup get_unhealthy_services(infra))
            \ {svc \in DOMAIN infra.services : infra.services[svc] = "healthy"}
    ELSE IF service_name \in get_unhealthy_services(infra)
    THEN IF service_name \in unhealthy
         THEN unhealthy \ {service_name} ELSE unhealthy \cup {service_name}
    ELSE unhealthy

\* _update_unhealthy_services: the unhealthy set after a status check.
_update_unhealthy_services(unhealthy, infra, service_name) ==
    IF service_name = None
    THEN (unhealthy \cup get_unhealthy_services(infra))
            \ {svc \in DOMAIN infra.services : infra.services[svc] = "healthy"}
    ELSE LET health == IF service_name \in DOMAIN infra.services
                       THEN infra.services[service_name] ELSE "unknown"
         IN  IF health \in {"critical", "degraded"}
             THEN register_unhealthy_service(unhealthy, service_name)
             ELSE IF health = "healthy"
             THEN mark_service_healthy(unhealthy, service_name)
             ELSE unhealthy

\* What a request was answered: the HTTP status and, for a 200, the fields of
\* ToolResponse; reason is the PolicyViolationError's reason, error the kind
\* of the error text, result the status of the tool's result.
Answer(http, success, policy_violation, reason, error, result) ==
    [http |-> http, success |-> success, policy_violation |-> policy_violation,
     reason |-> reason, error |-> error, result |-> result]

ToolResponseOk(result) == Answer(200, TRUE, FALSE, None, None, result)

HttpError(http) == Answer(http, FALSE, FALSE, None, "HTTP error", None)

\* What a handler leaves: the infrastructure, the unhealthy set, the answer.
Outcome(infra, unhealthy, answer) ==
    [infra |-> infra, unhealthy |-> unhealthy, answer |-> answer]

\* request.execution_mode or "REAL", upper-cased.
NormalMode(execution_mode) ==
    Upper(IF execution_mode = "" THEN "REAL" ELSE execution_mode)

\* execute_tool, step 1: a status check runs without a policy check and its
\* result feeds the unhealthy set; a ValueError of the call is not caught.
observe_status(unhealthy, infra, arguments) ==
    LET call == _execute_tool_function(infra, "get_service_status", arguments)
    IN  IF call.raised # None
        THEN Outcome(infra, unhealthy, HttpError(500))
        ELSE Outcome(call.infra,
                     _update_unhealthy_services(unhealthy, call.infra,
                                                ArgServiceName(arguments)),
                     ToolResponseOk(call.result.status))

\* Mutant: a denial empties the unhealthy set.
policy_denied_clearing(unhealthy, infra, decision) ==
    Outcome(infra, {},
            Answer(200, FALSE, TRUE, decision.reason, "Policy violation", None))

\* Mutant: the blocked attempt is written to the execution log.
policy_denied_logged(unhealthy, infra, decision) ==
    Outcome(_log_action(infra, "blocked"), unhealthy,
            Answer(200, FALSE, TRUE, decision.reason, "Policy violation", None))

\* execute_tool, step 2: the answer to a PolicyViolationError.
policy_denied(unhealthy, infra, decision) ==
    Outcome(infra, unhealthy,
            Answer(200, FALSE, TRUE, decision.reason, "Policy violation", None))

\* Mutant: a SHADOW request runs the tool as a REAL one does.
shadow_run_executing(unhealthy, infra, tool_name, arguments) ==
    LET call == _execute_tool_function(infra, tool_name, arguments)
    IN  IF call.raised # None
        THEN Outcome(infra, unhealthy, HttpError(500))
        ELSE Outcome(call.infra,
                     IF tool_name = "restart_service"
                     THEN mark_service_healthy(unhealthy, ArgServiceName(arguments))
                     ELSE unhealthy,
                     ToolResponseOk("SHADOW"))

\* execute_tool, step 3A: the impact report of a SHADOW request.
shadow_run(unhealthy, infra, tool_name, arguments) ==
    IF simulate_raises(tool_name, arguments)
    THEN Outcome(infra, unhealthy, HttpError(500))
    ELSE Outcome(infra, unhealthy, ToolResponseOk("SHADOW"))

\* execute_tool, the REAL run: the tool is called, and after a restart whose
\* result text has "success" the service is marked healthy on both sides.
real_run(unhealthy, infra, tool_name, arguments) ==
    LET service_name == ArgServiceName(arguments)
        call         == _execute_tool_function(infra, tool_name, arguments)
    IN  IF call.raised # None
        THEN Outcome(call.infra, unhealthy,
                     Answer(200, FALSE, FALSE, None, call.raised, None))
        ELSE IF /\ tool_name = "restart_service"
                /\ StrHasSuccess(call.result)
                /\ Truthy(service_name)
        THEN Outcome(set_service_health(call.infra, service_name, "healthy"),
                     mark_service_healthy(unhealthy, service_name),
                     ToolResponseOk(call.result.status))
        ELSE Outcome(call.infra, unhealthy, ToolResponseOk(call.result.status))

\* Mutant: a SHADOW request is answered with its report before the policy is
\* consulted.
execute_tool_shadow_unchecked(pol, mode, unhealthy, infra, tool_name, arguments, execution_mode) ==
    LET decision == validate(pol, mode, unhealthy, tool_name, arguments)
    IN  IF tool_name = "get_service_status"
        THEN observe_status(unhealthy, infra, arguments)
        ELSE IF NormalMode(execution_mode) = "SHADOW"
        THEN shadow_run(unhealthy, infra, tool_name, arguments)
        ELSE IF decision = Crash
        THEN Outcome(infra, unhealthy, HttpError(500))
        ELSE IF ~decision.allowed
        THEN policy_denied(unhealthy, infra, decision)
        ELSE IF NormalMode(execution_mode) # "REAL"
        THEN Outcome(infra, unhealthy, HttpError(400))
        ELSE real_run(unhealthy, infra, tool_name, arguments)

\* POST /tools/execute
execute_tool(pol, mode, unhealthy, infra, tool_name, arguments, execution_mode) ==
    LET decision == validate(pol, mode, unhealthy, tool_name, arguments)
    IN  IF tool_name = "get_service_status"
        THEN observe_status(unhealthy, infra, arguments)
        ELSE IF decision = Crash
        THEN Outcome(infra, unhealthy, HttpError(500))
        ELSE IF ~decision.allowed
        THEN policy_denied(unhealthy, infra, decision)
        ELSE IF NormalMode(execution_mode) \notin {"REAL", "SHADOW"}
        THEN Outcome(infra, unhealthy, HttpError(400))
        ELSE IF NormalMode(execution_mode) = "SHADOW"
        THEN shadow_run(unhealthy, infra, tool_name, arguments)
        ELSE real_run(unhealthy, infra, tool_name, arguments)

\* Mutant: the requested mode is stored without looking it up in the document.
set_mode_unchecked(pol, mode, requested) == requested

\* PolicyEngine.set_mode: the mode it leaves (it raises ValueError, and the
\* endpoint answers 400, when the document does not declare the mode).
set_mode(pol, mode, requested) ==
    IF requested \notin DOMAIN pol.modes THEN mode ELSE requested

\* Mutant: the status reports the tool lists of NORMAL mode.
get_policy_status_of_normal(pol, mode, unhealthy) ==
    [current_mode |-> mode,
     allowed_tools |-> pol.modes["NORMAL"].allowed_tools,
     blocked_tools |-> pol.modes["NORMAL"].blocked_tools,
     unhealthy_services |-> unhealthy]

\* GET /policy/status: the engine's getters, which only read.
get_policy_status(pol, mode, unhealthy) ==
    [current_mode |-> mode,
     allowed_tools |-> pol.modes[mode].allowed_tools,
     blocked_tools |-> pol.modes[mode].blocked_tools,
     unhealthy_services |-> unhealthy]

\* POST /infrastructure/simulate-incident: the final read of
\* cloud_infra.services[service] raises KeyError (a 500) for an unknown name.
simulate_incident(unhealthy, infra, service, status) ==
    Outcome(set_service_health(infra, service, status),
            IF status \in {"critical", "degraded"}
            THEN register_unhealthy_service(unhealthy, service)
            ELSE mark_service_healthy(unhealthy, service),
            IF service \in DOMAIN infra.services
            THEN ToolResponseOk(None) ELSE HttpError(500))

\* Mutant: the fix sets the health and leaves the service registered.
fix_service_unreconciled(unhealthy, infra, service) ==
    Outcome(set_service_health(infra, service, "healthy"), unhealthy,
            ToolResponseOk(None))

\* POST /infrastructure/fix-service
fix_service(unhealthy, infra, service) ==
    Outcome(set_service_health(infra, service, "healthy"),
            mark_service_healthy(unhealthy, service),
            ToolResponseOk(None))

(***************************************************************************)
(* The state machine: one action per endpoint.                             *)
(***************************************************************************)
CloudInfra == Infra(services, fleet_size, execution_log)

NoRequest == [op |-> "none"]

\* The state an endpoint leaves, and the request and answer it records.
Leaves(out, request) ==
    /\ Len(out.infra.execution_log) <= MaxLog
    /\ services' = out.infra.services
    /\ fleet_size' = out.infra.fleet_size
    /\ execution_log' = out.infra.execution_log
    /\ unhealthy_services' = out.unhealthy
    /\ response' = [request EXCEPT !.answer = out.answer]

Init ==
    /\ policy = OpsPolicy
    /\ current_mode = "NORMAL"
    /\ unhealthy_services = {}
    /\ services = [s \in ServiceNames |-> "healthy"]
    /\ fleet_size = InitialFleetSize
    /\ execution_log = <<>>
    /\ response = NoRequest
    /\ in_flight = {}

\* Mutant: a mode change also empties the unhealthy set.
SetMode_resetting ==
    \E mode \in ModeNames :
        /\ current_mode' = set_mode(policy, current_mode, mode)
        /\ unhealthy_services' = {}
        /\ response' = [op |-> "set_mode", mode |-> mode,
                        answer |-> IF mode \in DOMAIN policy.modes
                                   THEN ToolResponseOk(None) ELSE HttpError(400)]
        /\ UNCHANGED <<policy, services, fleet_size, execution_log, in_flight>>

SetMode ==
    \E mode \in ModeNames :
        /\ current_mode' = set_mode(policy, current_mode, mode)
        /\ response' = [op |-> "set_mode", mode |-> mode,
                        answer |-> IF mode \in DOMAIN policy.modes
                                   THEN ToolResponseOk(None) ELSE HttpError(400)]
        /\ UNCHANGED <<policy, unhealthy_services, services, fleet_size,
                       execution_log, in_flight>>

SimulateIncident ==
    \E service \in Targets, status \in Statuses :
        /\ Leaves(simulate_incident(unhealthy_services, CloudInfra, service, status),
                  [op |-> "simulate_incident", service |-> service,
                   status |-> status, answer |-> None])
        /\ UNCHANGED <<policy, current_mode, in_flight>>

FixService ==
    \E service \in Targets :
        /\ Leaves(fix_service(unhealthy_services, CloudInfra, service),
                  [op |-> "fix_service", service |-> service, answer |-> None])
        /\ UNCHANGED <<policy, current_mode, in_flight>>

ExecuteTool ==
    \E request \in StepRequests :
        /\ Leaves(execute_tool(policy, current_mode, unhealthy_services, CloudInfra,
                               request.tool_name, request.arguments,
                               request.execution_mode),
                  [op |-> "execute_tool", tool_name |-> request.tool_name,
                   arguments |-> request.arguments,
                   execution_mode |-> request.execution_mode, answer |-> None])
        /\ UNCHANGED <<policy, current_mode, in_flight>>

GetPolicyStatus ==
    /\ response' = [op |-> "get_policy_status",
                    answer |-> get_policy_status(policy, current_mode,
                                                 unhealthy_services)]
    /\ UNCHANGED <<policy, current_mode, unhealthy_services, services, fleet_size,
                   execution_log, in_flight>>

Next == SetMode \/ SimulateIncident \/ FixService \/ ExecuteTool \/ GetPolicyStatus

Spec == Init /\ [][Next]_vars

(***************************************************************************)
(* PolicyEngine.validate alone: every engine state a run of the server can *)
(* leave (any declared mode, any set of registered names, under each       *)
(* policy document), and one action that applies validate to a request.    *)
(***************************************************************************)
InitValidate ==
    /\ policy \in PolicyDocs
    /\ current_mode \in DOMAIN policy.modes
    /\ unhealthy_services \in SUBSET Targets
    /\ services = [s \in ServiceNames |->
                    IF s \in unhealthy_services THEN "critical" ELSE "healthy"]
    /\ fleet_size = InitialFleetSize
    /\ execution_log = [i \in 1..Cardinality(unhealthy_services \cap ServiceNames) |->
                            "health_change"]
    /\ response = NoRequest
    /\ in_flight = {}

Validate ==
    \E tool_name \in ToolNames, arguments \in ArgMaps, context \in Contexts :
        /\ response' = [op |-> "validate", tool_name |-> tool_name,
                        arguments |-> arguments,
                        decision |-> validate_in_context(policy, current_mode,
                                                         unhealthy_services, tool_name,
                                                         arguments, context)]
        /\ UNCHANGED <<policy, current_mode, unhealthy_services, services,
                       fleet_size, execution_log, in_flight>>

NextValidate == Validate

SpecValidate == InitValidate /\ [][NextValidate]_vars

\* The last request was a validate call.
Validated == response.op = "validate"

(***************************************************************************)
(* Properties of validate, checked under SpecValidate.                     *)
(***************************************************************************)
\* C1: a tool of global_rules.always_blocked is denied as globally blocked
\* in every mode, for every unhealthy set and every argument map.
C1_GloballyBlockedDenied ==
    (Validated /\ response.tool_name \in policy.always_blocked)
        => response.decision = Deny("Globally blocked", "permanently blocked")

\* A globally blocked tool, whitelisted by the mode and aimed at a registered
\* unhealthy service in EMERGENCY mode, was denied.
C1_Witness ==
    /\ Validated
    /\ response.tool_name \in policy.always_blocked
    /\ response.tool_name \in policy.modes[current_mode].allowed_tools
    /\ current_mode = "EMERGENCY"
    /\ ArgServiceName(response.arguments) \in unhealthy_services
    /\ ~response.decision.allowed

\* The mode is EMERGENCY with the service restriction enabled, and
\* restart_service passes the global, mode-block and whitelist checks.
RestartGated ==
    /\ current_mode = "EMERGENCY"
    /\ policy.modes[current_mode].restrictions_enabled
    /\ "restart_service" \notin policy.always_blocked
    /\ "restart_service" \notin policy.modes[current_mode].blocked_tools
    /\ "restart_service" \in policy.modes[current_mode].allowed_tools

\* C2: under RestartGated, restart_service on a non-empty target R is allowed
\* iff R is in the unhealthy set, and a denial is the target-healthy one.
C2_RestartIffUnhealthy ==
    (/\ Validated
     /\ RestartGated
     /\ response.tool_name = "restart_service"
     /\ Truthy(ArgServiceName(response.arguments)))
        => /\ response.decision.allowed
                <=> ArgServiceName(response.arguments) \in unhealthy_services
           /\ ~response.decision.allowed
                => response.decision.reason = "Target service is not unhealthy"

\* A restart of a registered service was allowed while another service,
\* never registered, stays outside the unhealthy set.
C2_Witness ==
    /\ Validated
    /\ RestartGated
    /\ response.tool_name = "restart_service"
    /\ response.arguments = Args({"service_name"}, "web-server", 0)
    /\ unhealthy_services = {"web-server"}
    /\ response.decision.allowed

\* C3: under the deployed policy document, NORMAL mode denies every
\* mutation-class tool, whatever the arguments and the unhealthy set.
C3_NormalDeniesMutations ==
    (/\ Validated
     /\ policy = OpsPolicy
     /\ current_mode = "NORMAL"
     /\ _is_modification_tool(response.tool_name))
        => ~response.decision.allowed

\* A restart aimed at a registered unhealthy service was denied in NORMAL
\* mode.
C3_Witness ==
    /\ Validated
    /\ policy = OpsPolicy
    /\ current_mode = "NORMAL"
    /\ response.tool_name = "restart_service"
    /\ Truthy(ArgServiceName(response.arguments))
    /\ ArgServiceName(response.arguments) \in unhealthy_services
    /\ ~response.decision.allowed

\* C13 (as claimed): the observational tools that the gateway passes to
\* validate (every tool but get_service_status) are never denied, whatever
\* the mode's allowed_tools and blocked_tools contain.
C13_ObservationalNeverDenied ==
    (Validated /\ response.tool_name \in {"list_services", "read_logs"})
        => response.decision.allowed

\* C16: in every mode, a tool of the mode's blocked_tools is denied by
\* validate, for every unhealthy set and every argument map.
C16_ModeBlockedDenied ==
    (Validated /\ response.tool_name \in policy.modes[current_mode].blocked_tools)
        => ~response.decision.allowed

\* A restart aimed at a registered unhealthy service, in a mode that both
\* whitelists and blocks restart_service, was denied with the mode's
\* rationale.
C16_Witness ==
    /\ Validated
    /\ response.tool_name = "restart_service"
    /\ "restart_service" \in policy.modes[current_mode].blocked_tools
    /\ "restart_service" \in policy.modes[current_mode].allowed_tools
    /\ "restart_service" \notin policy.always_blocked
    /\ ArgServiceName(response.arguments) \in unhealthy_services
    /\ response.decision.reason = policy.modes[current_mode].rationale

\* The tool of the last validate call passes the global, mode-block and
\* whitelist checks of the current mode.
PassesToolChecks ==
    /\ Validated
    /\ response.tool_name \notin policy.always_blocked
    /\ response.tool_name \notin policy.modes[current_mode].blocked_tools
    /\ response.tool_name \in policy.modes[current_mode].allowed_tools

\* C17 (as claimed): in every mode whose policy enables the service
\* restriction, a mutation-class tool that passes the tool checks and names a
\* target outside the unhealthy set is denied as target-healthy.
C17_GateInEveryRestrictedMode ==
    (/\ PassesToolChecks
     /\ policy.modes[current_mode].restrictions_enabled
     /\ _is_modification_tool(response.tool_name)
     /\ Truthy(ArgServiceName(response.arguments))
     /\ ArgServiceName(response.arguments) \notin unhealthy_services)
        => response.decision = Deny("Target service is not unhealthy", "service is healthy")

\* C18 (as claimed): where scale_fleet passes the tool checks, a scale_fleet
\* request that carries a count and no service_name is allowed.
C18_FleetWideScaleAllowed ==
    (/\ PassesToolChecks
     /\ response.tool_name = "scale_fleet"
     /\ response.arguments.keys = {"count"})
        => response.decision.allowed

\* C19: in every mode where restart_service passes the tool checks, a
\* restart_service request whose service_name is absent, None or empty is
\* denied with the missing-target reason, for every unhealthy set.
C19_MissingTargetDenied ==
    (/\ PassesToolChecks
     /\ response.tool_name = "restart_service"
     /\ ~Truthy(ArgServiceName(response.arguments)))
        => response.decision = Deny("Missing service target",
                                    "requires a service_name parameter")

\* A restart with an empty service_name was denied as missing its target in
\* EMERGENCY mode with services registered as unhealthy.
C19_Witness ==
    /\ PassesToolChecks
    /\ response.tool_name = "restart_service"
    /\ response.arguments = Args({"service_name"}, "", 0)
    /\ current_mode = "EMERGENCY"
    /\ unhealthy_services # {}
    /\ response.decision.reason = "Missing service target"

\* C28: the denial that validate reports is that of the first failing check
\* in the order global block, mode block, whitelist, target presence, health
\* gate; a tool stopped by one of the first three is never denied as
\* missing-target or target-healthy.
C28_FirstFailingCheckReported ==
    Validated =>
        LET tool_name == response.tool_name
            target    == ArgServiceName(response.arguments)
            mode      == policy.modes[current_mode]
            reason    == response.decision.reason
        IN  IF tool_name \in policy.always_blocked
            THEN reason = "Globally blocked"
            ELSE IF tool_name \in mode.blocked_tools
            THEN reason = mode.rationale
            ELSE IF tool_name \notin mode.allowed_tools
            THEN reason = "Not in allowed tools list"
            ELSE IF _is_modification_tool(tool_name) /\ ~Truthy(target)
            THEN reason = "Missing service target"
            ELSE reason \in {None, "Target service is not unhealthy"}

\* A tool that is globally blocked and mode-blocked, called without a
\* target, was denied as globally blocked.
C28_Witness ==
    /\ Validated
    /\ response.tool_name \in policy.always_blocked
    /\ response.tool_name \in policy.modes[current_mode].blocked_tools
    /\ _is_modification_tool(response.tool_name)
    /\ ~Truthy(ArgServiceName(response.arguments))
    /\ response.decision.reason = "Globally blocked"

(***************************************************************************)
(* Properties of the gateway, checked under Spec.                          *)
(***************************************************************************)
\* The last request was a tool execution.
Executed == response.op = "execute_tool"

\* The last request was a REAL restart_service that ran on the
\* infrastructure and returned the success result.
RestartSucceeded ==
    /\ Executed
    /\ response.tool_name = "restart_service"
    /\ NormalMode(response.execution_mode) = "REAL"
    /\ response.answer.success
    /\ response.answer.result = "success"

\* The last two entries of the execution log are those of a restart that
\* succeeded.
LogEndsWithRestart ==
    /\ Len(execution_log) >= 2
    /\ execution_log[Len(execution_log) - 1] = "restart_service"
    /\ execution_log[Len(execution_log)] = "health_change"

\* C4: in EMERGENCY mode with the service restriction, a restart_service
\* request on R that directly follows a succeeded REAL restart of R is denied
\* with the target-healthy reason.
C4_RecoveryClosesGate ==
    [][(/\ RestartSucceeded
        /\ RestartGated
        /\ response'.op = "execute_tool"
        /\ response'.tool_name = "restart_service"
        /\ ArgServiceName(response'.arguments) = ArgServiceName(response.arguments))
        => /\ response'.answer.policy_violation
           /\ response'.answer.reason = "Target service is not unhealthy"]_vars

\* The restart of web-server succeeded and the next restart of it was denied
\* as target-healthy.
C4_Witness ==
    /\ Executed
    /\ RestartGated
    /\ response.tool_name = "restart_service"
    /\ ArgServiceName(response.arguments) = "web-server"
    /\ response.answer.policy_violation
    /\ response.answer.reason = "Target service is not unhealthy"
    /\ LogEndsWithRestart

\* C5 (as claimed): the unhealthy set is the set of resources whose health is
\* degraded or critical.
C5_UnhealthyDerivedFromHealth ==
    unhealthy_services = get_unhealthy_services(CloudInfra)

\* C6 (as claimed): right after an incident simulation that broke a resource,
\* with no status check since, the resource is not in the unhealthy set.
C6_UnobservedNotRegistered ==
    (/\ response.op = "simulate_incident"
     /\ response.status \in {"critical", "degraded"})
        => response.service \notin unhealthy_services

\* C7: a request that the policy validation denies leaves the health map,
\* the fleet size, the execution log, the unhealthy set and the mode as they
\* were.
C7_DenialChangesNothing ==
    [][(response'.op = "execute_tool" /\ response'.answer.policy_violation)
        => UNCHANGED <<services, fleet_size, execution_log, unhealthy_services,
                       current_mode>>]_vars

\* A restart was denied in a state with a broken, registered service and a
\* non-empty execution log.
C7_Witness ==
    /\ Executed
    /\ response.answer.policy_violation
    /\ response.tool_name = "restart_service"
    /\ unhealthy_services # {}
    /\ services["web-server"] = "critical"
    /\ execution_log # <<>>

\* C8: in EMERGENCY mode, a REAL restart_service of a known resource R that
\* is critical and registered as unhealthy is allowed and succeeds, and it
\* leaves health[R] healthy and R outside the unhealthy set.
C8_RestartHealsBrokenService ==
    [][\A R \in ServiceNames :
        (/\ RestartGated
         /\ services[R] = "critical"
         /\ R \in unhealthy_services
         /\ response'.op = "execute_tool"
         /\ response'.tool_name = "restart_service"
         /\ response'.arguments = Args({"service_name"}, R, 0)
         /\ NormalMode(response'.execution_mode) = "REAL")
        => /\ response'.answer.success
           /\ response'.answer.result = "success"
           /\ services'[R] = "healthy"
           /\ R \notin unhealthy_services']_vars

\* Scenario B: incident, status check, restart of web-server, which is
\* healthy and unregistered afterwards.
C8_Witness ==
    /\ RestartSucceeded
    /\ RestartGated
    /\ response.arguments = Args({"service_name"}, "web-server", 0)
    /\ execution_log = <<"health_change", "get_service_status",
                         "restart_service", "health_change">>
    /\ services["web-server"] = "healthy"
    /\ "web-server" \notin unhealthy_services

\* C9 (as claimed): an allowed REAL restart_service whose result is not the
\* success result leaves the unhealthy set and the health map unchanged.
C9_FailedRestartNotReconciled ==
    [][(/\ response'.op = "execute_tool"
        /\ response'.tool_name = "restart_service"
        /\ NormalMode(response'.execution_mode) = "REAL"
        /\ response'.answer.http = 200
        /\ ~response'.answer.policy_violation
        /\ response'.answer.result # "success")
        => UNCHANGED <<unhealthy_services, services>>]_vars

\* The last request was allowed by the policy and run for real.
AllowedReal ==
    /\ Executed
    /\ NormalMode(response.execution_mode) = "REAL"
    /\ response.answer.http = 200
    /\ ~response.answer.policy_violation

\* C10 (as claimed): an unknown tool, and an allowed mutation of an unknown
\* target, are answered with success = false and policy_violation = false.
C10_UnknownIsExecutionError ==
    (/\ Executed
     /\ \/ response.tool_name \notin ToolMap
        \/ /\ AllowedReal
           /\ response.tool_name = "restart_service"
           /\ response.arguments.keys = {"service_name"}
           /\ response.arguments.service_name \notin DOMAIN services)
        => (~response.answer.success /\ ~response.answer.policy_violation)

\* The last request asked for a SHADOW execution.
ShadowRequested ==
    /\ Executed
    /\ NormalMode(response.execution_mode) = "SHADOW"

\* C11: a request with execution_mode SHADOW, whatever its tool, arguments
\* and policy decision, leaves the health map, the fleet size and the
\* unhealthy set as they were.
C11_ShadowChangesNothing ==
    [][(/\ response'.op = "execute_tool"
        /\ NormalMode(response'.execution_mode) = "SHADOW")
        => UNCHANGED <<services, fleet_size, unhealthy_services>>]_vars

\* An allowed SHADOW restart of the broken, registered web-server was
\* answered with the impact report, and web-server is still critical and
\* registered.
C11_Witness ==
    /\ ShadowRequested
    /\ response.tool_name = "restart_service"
    /\ response.arguments = Args({"service_name"}, "web-server", 0)
    /\ response.answer.success
    /\ response.answer.result = "SHADOW"
    /\ services["web-server"] = "critical"
    /\ "web-server" \in unhealthy_services

\* What the gateway answers, in the current state, to a request for the tool
\* with the arguments under the execution mode.
AnswerTo(tool_name, arguments, execution_mode) ==
    execute_tool(policy, current_mode, unhealthy_services, CloudInfra,
                 tool_name, arguments, execution_mode).answer

\* C12: a SHADOW request is denied by policy exactly when the REAL request
\* for the same tool and arguments is denied in the state it arrives in, and
\* with the same reason; a denied request is answered the same in both.
C12_ShadowDecidesAsReal ==
    [][(/\ response'.op = "execute_tool"
        /\ NormalMode(response'.execution_mode) = "SHADOW")
        => LET real == AnswerTo(response'.tool_name, response'.arguments, "REAL")
           IN  IF real.policy_violation
               THEN response'.answer = real
               ELSE ~response'.answer.policy_violation]_vars

\* A SHADOW restart of the healthy web-server was denied in EMERGENCY mode
\* as target-healthy, as the REAL one is in that state.
C12_Witness ==
    /\ ShadowRequested
    /\ RestartGated
    /\ response.tool_name = "restart_service"
    /\ response.answer.policy_violation
    /\ response.answer.reason = "Target service is not unhealthy"
    /\ AnswerTo(response.tool_name, response.arguments, "REAL") = response.answer

\* C14: a mode change to a name the policy document does not declare is
\* answered with an error and leaves the mode and the unhealthy set as they
\* were; a change to a declared name makes it the current mode.
C14_SetModeChecked ==
    [][response'.op = "set_mode"
        => IF response'.mode \in DOMAIN policy.modes
           THEN /\ current_mode' = response'.mode
                /\ response'.answer.http = 200
           ELSE /\ response'.answer.http = 400
                /\ UNCHANGED <<current_mode, unhealthy_services>>]_vars

\* A change to an undeclared mode was rejected in EMERGENCY mode with a
\* service registered as unhealthy.
C14_Witness ==
    /\ response.op = "set_mode"
    /\ response.mode \notin DOMAIN policy.modes
    /\ response.answer.http = 400
    /\ current_mode = "EMERGENCY"
    /\ unhealthy_services # {}

\* The request being answered is decided as validate decides it on the given
\* mode and unhealthy set.
DecidedOn(mode, unhealthy) ==
    LET decision == validate(policy, mode, unhealthy,
                             response'.tool_name, response'.arguments)
    IN  /\ response'.answer.policy_violation
                = (~decision.allowed /\ decision # Crash)
        /\ response'.answer.reason = decision.reason

\* C15: a validated request that directly follows a mode change, an incident
\* simulation or a fix-service is decided on the mode and the unhealthy set
\* which that request wrote.
C15_WritesSeenByNextDecision ==
    [][(response'.op = "execute_tool" /\ response'.tool_name # "get_service_status")
        => CASE response.op = "set_mode" ->
                    DecidedOn(IF response.answer.http = 200
                              THEN response.mode ELSE current_mode,
                              unhealthy_services)
             [] response.op = "simulate_incident" ->
                    DecidedOn(current_mode,
                              IF response.status \in {"critical", "degraded"}
                              THEN unhealthy_services \cup {response.service}
                              ELSE unhealthy_services \ {response.service})
             [] response.op = "fix_service" ->
                    DecidedOn(current_mode, unhealthy_services \ {response.service})
             [] OTHER -> TRUE]_vars

\* The restart of web-server succeeded with nothing but the incident
\* simulation run on the infrastructure before it: the mode and the
\* registration had just been written.
C15_Witness ==
    /\ RestartSucceeded
    /\ RestartGated
    /\ response.arguments = Args({"service_name"}, "web-server", 0)
    /\ execution_log = <<"health_change", "restart_service", "health_change">>

\* C20 (as claimed): a restart request whose service_name lists several
\* targets, one of them outside the unhealthy set, is answered as a policy
\* violation.
C20_MixedTargetsDenied ==
    (/\ Executed
     /\ response.tool_name = "restart_service"
     /\ IsList(ArgServiceName(response.arguments))
     /\ \E target \in ListMembers : target \notin unhealthy_services)
        => response.answer.policy_violation

(***************************************************************************)
(* Requests in flight.  uvicorn accepts connections while a handler runs,  *)
(* so several tool requests can be received before any is answered; the    *)
(* event loop then runs one handler at a time, each up to its next await   *)
(* expression.                                                             *)
(***************************************************************************)
\* Mutant: execute_tool awaits between the policy validation and the run.
AwaitPoints_after_validate(handler) == {"validated"}

\* The await expressions of a handler: execute_tool has none, and the
\* functions it calls are plain functions.
AwaitPoints(handler) == {}

\* The tool requests that are put in flight.
InFlightRequests ==
    {Request("get_service_status", Args({}, None, 0), "REAL"),
     Request("get_service_status", Args({"service_name"}, "web-server", 0), "REAL"),
     Request("restart_service", Args({"service_name"}, "web-server", 0), "REAL")}

\* A request in flight: pc is the point its handler resumes from.
Job(request, pc) == [request |-> request, pc |-> pc]

\* A request arrives while others are waiting for the event loop.
Receive ==
    \E request \in InFlightRequests :
        /\ Cardinality(in_flight) < MaxInFlight
        /\ Job(request, "received") \notin in_flight
        /\ in_flight' = in_flight \cup {Job(request, "received")}
        /\ UNCHANGED <<policy, current_mode, unhealthy_services, services,
                       fleet_size, execution_log, response>>

\* The event loop runs the handler of one request in flight up to its next
\* await expression, or to its return when there is none.
Run ==
    \E job \in in_flight :
        LET request == job.request
            record  == [op |-> "execute_tool", tool_name |-> request.tool_name,
                        arguments |-> request.arguments,
                        execution_mode |-> request.execution_mode, answer |-> None]
        IN  IF /\ job.pc = "received"
               /\ "validated" \in AwaitPoints("execute_tool")
               /\ request.tool_name # "get_service_status"
               /\ validate(policy, current_mode, unhealthy_services,
                           request.tool_name, request.arguments).allowed
            THEN /\ in_flight' = (in_flight \ {job}) \cup {Job(request, "validated")}
                 /\ UNCHANGED <<policy, current_mode, unhealthy_services, services,
                                fleet_size, execution_log, response>>
            ELSE /\ Leaves(IF job.pc = "validated"
                           THEN real_run(unhealthy_services, CloudInfra,
                                         request.tool_name, request.arguments)
                           ELSE execute_tool(policy, current_mode, unhealthy_services,
                                             CloudInfra, request.tool_name,
                                             request.arguments, request.execution_mode),
                           record)
                 /\ in_flight' = in_flight \ {job}
                 /\ UNCHANGED <<policy, current_mode>>

\* An incident that breaks web-server, between the runs of two handlers.
SimulateCritical ==
    /\ Leaves(simulate_incident(unhealthy_services, CloudInfra, "web-server", "critical"),
              [op |-> "simulate_incident", service |-> "web-server",
               status |-> "critical", answer |-> None])
    /\ UNCHANGED <<policy, current_mode, in_flight>>

NextInFlight == Receive \/ Run \/ SetMode \/ SimulateCritical \/ FixService

SpecInFlight == Init /\ [][NextInFlight]_vars

\* The step runs CloudInfrastructure.restart_service.
RestartRuns ==
    /\ Len(execution_log') > Len(execution_log)
    /\ execution_log'[Len(execution_log) + 1] = "restart_service"

\* C21: with several requests in flight, no step puts a known resource into
\* the unhealthy set unless its health is degraded or critical when the step
\* ends, and no step runs a restart that validate denies on the mode and the
\* unhealthy set as they are when the step begins.
C21_HandlersAtomic ==
    [][/\ \A R \in ServiceNames :
            (R \notin unhealthy_services /\ R \in unhealthy_services')
                => services'[R] \in {"critical", "degraded"}
       /\ RestartRuns
            => validate(policy, current_mode, unhealthy_services,
                        "restart_service", response'.arguments).allowed]_vars

\* The restart of web-server succeeded while a status check of web-server,
\* received before the restart ran, is still in flight.
C21_Witness ==
    /\ RestartSucceeded
    /\ response.arguments = Args({"service_name"}, "web-server", 0)
    /\ "web-server" \notin unhealthy_services
    /\ Job(Request("get_service_status", Args({"service_name"}, "web-server", 0),
                   "REAL"), "received") \in in_flight

(***************************************************************************)
(* Further properties of the gateway, checked under Spec.                  *)
(***************************************************************************)
\* The execution log entry that the infrastructure operation of a tool writes.
LogEntry(tool_name) ==
    IF tool_name = "delete_database" THEN "delete_database_attempt" ELSE tool_name

\* The entries of the execution log.
Logged == {execution_log[i] : i \in DOMAIN execution_log}

\* C22: the infrastructure operation of a globally blocked tool has never
\* run: the execution log holds no entry of such a tool, and in particular
\* no delete_database_attempt.
C22_GloballyBlockedNeverRuns ==
    /\ \A tool_name \in policy.always_blocked : LogEntry(tool_name) \notin Logged
    /\ "delete_database_attempt" \notin Logged

\* A delete_database request was denied as globally blocked in EMERGENCY
\* mode after other operations had run on the infrastructure.
C22_Witness ==
    /\ Executed
    /\ response.tool_name = "delete_database"
    /\ response.answer.policy_violation
    /\ response.answer.reason = "Globally blocked"
    /\ current_mode = "EMERGENCY"
    /\ "restart_service" \in Logged

\* C27: the policy status returns the current mode, the allowed and blocked
\* tools of that mode and the unhealthy set, and leaves the mode, the
\* unhealthy set, the health map, the fleet size and the execution log as
\* they were.
C27_PolicyStatusReadOnly ==
    [][response'.op = "get_policy_status"
        => /\ response'.answer =
                [current_mode |-> current_mode,
                 allowed_tools |-> policy.modes[current_mode].allowed_tools,
                 blocked_tools |-> policy.modes[current_mode].blocked_tools,
                 unhealthy_services |-> unhealthy_services]
           /\ UNCHANGED <<current_mode, unhealthy_services, services, fleet_size,
                          execution_log>>]_vars

\* The status was read in EMERGENCY mode with a broken, registered service
\* and reports that mode and that set.
C27_Witness ==
    /\ response.op = "get_policy_status"
    /\ response.answer.current_mode = "EMERGENCY"
    /\ response.answer.unhealthy_services = {"web-server"}
    /\ "restart_service" \in response.answer.allowed_tools
    /\ services["web-server"] = "critical"

\* The step answers a REAL restart_service request that validate allowed on
\* the state the step begins in: the only tool request whose handler
\* reconciles the registry after validate.
AllowedRestartRuns ==
    /\ response'.op = "execute_tool"
    /\ response'.tool_name = "restart_service"
    /\ NormalMode(response'.execution_mode) = "REAL"
    /\ validate(policy, current_mode, unhealthy_services,
                "restart_service", response'.arguments).allowed

ObservedAgain ==
    \/ /\ response.op = "execute_tool"
       /\ response.tool_name = "get_service_status"
       /\ response'.op = "execute_tool"
       /\ response'.tool_name = "get_service_status"
       /\ response'.arguments = response.arguments
    \/ /\ response.op = "simulate_incident"
       /\ response'.op = "simulate_incident"
       /\ response'.service = response.service
       /\ response'.status = response.status

\* C30: observing the same health of a resource a second time in a row
\* leaves the unhealthy set and the health map as the first observation
\* left them.
C30_ObservationIdempotent ==
    [][ObservedAgain => UNCHANGED <<unhealthy_services, services>>]_vars

\* Two status checks ran on the infrastructure after web-server broke, the
\* last one of web-server, which is critical and registered.
C30_Witness ==
    /\ Executed
    /\ response.tool_name = "get_service_status"
    /\ response.arguments = Args({"service_name"}, "web-server", 0)
    /\ execution_log = <<"health_change", "get_service_status", "get_service_status">>
    /\ services["web-server"] = "critical"
    /\ "web-server" \in unhealthy_services

\* C23 (as claimed): a request that reaches the policy check and is not
\* allowed by it is answered with a structured denial: success false,
\* policy_violation true and a reason.
C23_DenialsStructured ==
    [][(/\ response'.op = "execute_tool"
        /\ response'.tool_name # "get_service_status"
        /\ ~validate(policy, current_mode, unhealthy_services,
                     response'.tool_name, response'.arguments).allowed)
        => /\ response'.answer.http = 200
           /\ ~response'.answer.success
           /\ response'.answer.policy_violation
           /\ response'.answer.reason # None]_vars

(***************************************************************************)
(* Startup: PolicyEngine(policy_path) at the import of server.py, and the  *)
(* validate calls of the engine it leaves.                                 *)
(***************************************************************************)
\* A policy document as json.load returns it: keys are the top-level keys it
\* has, the other two fields their contents (empty when the key is absent).
Document(keys, always_blocked, modes) ==
    [keys |-> keys, always_blocked |-> always_blocked, modes |-> modes]

NoModes == [m \in {} |-> ModePolicy({}, {}, "", FALSE)]

\* The deployed document, and three that lack global_rules, modes, and the
\* entry of NORMAL.
Documents ==
    {Document({"global_rules", "modes"}, OpsPolicy.always_blocked, OpsPolicy.modes),
     Document({"modes"}, {}, OpsPolicy.modes),
     Document({"global_rules"}, OpsPolicy.always_blocked, NoModes),
     Document({"global_rules", "modes"}, OpsPolicy.always_blocked,
              [m \in {"EMERGENCY"} |-> OpsPolicy.modes[m]])}

\* The file at policy_path: whether it exists, and the document in it.
PolicyFiles == {[exists |-> e, document |-> d] : e \in BOOLEAN, d \in Documents}

\* PolicyEngine._load_policy: the document, or the exception it raises.
_load_policy(file) ==
    IF ~file.exists
    THEN [raised |-> "FileNotFoundError", policy |-> file.document]
    ELSE [raised |-> None, policy |-> file.document]

\* The document has every key that the engine reads at request time.
Complete(document) ==
    /\ document.keys = {"global_rules", "modes"}
    /\ "NORMAL" \in DOMAIN document.modes

\* validate raises KeyError: policy['global_rules'] is read first, and
\* policy['modes'][current_mode] once the tool is not globally blocked.
validate_raises(pol, mode, tool_name) ==
    \/ "global_rules" \notin pol.keys
    \/ /\ tool_name \notin pol.always_blocked
       /\ ("modes" \notin pol.keys \/ mode \notin DOMAIN pol.modes)

KeyError == [allowed |-> FALSE, reason |-> None, message |-> "KeyError"]

\* The process is launched with a policy file and has not run the
\* constructor yet: no engine exists.
InitStartup ==
    /\ response \in {[op |-> "launch", file |-> f] : f \in PolicyFiles}
    /\ policy = Document({}, {}, NoModes)
    /\ current_mode = None
    /\ unhealthy_services = {}
    /\ services = [s \in ServiceNames |-> "healthy"]
    /\ fleet_size = InitialFleetSize
    /\ execution_log = <<>>
    /\ in_flight = {}

\* PolicyEngine.__init__
Construct ==
    /\ response.op = "launch"
    /\ LET load == _load_policy(response.file)
       IN  /\ response' = [op |-> "construct", raised |-> load.raised]
           /\ IF load.raised # None
              THEN UNCHANGED <<policy, current_mode, unhealthy_services>>
              ELSE /\ policy' = load.policy
                   /\ current_mode' = "NORMAL"
                   /\ unhealthy_services' = {}
    /\ UNCHANGED <<services, fleet_size, execution_log, in_flight>>

\* The constructor returned: the server has an engine.
Constructed ==
    \/ response.op = "construct" /\ response.raised = None
    \/ response.op = "validate"

\* validate called on the engine that the constructor left.
ValidateLoaded ==
    /\ Constructed
    /\ \E tool_name \in ToolNames, arguments \in ArgMaps :
        response' = [op |-> "validate", tool_name |-> tool_name,
                     arguments |-> arguments,
                     decision |-> IF validate_raises(policy, current_mode, tool_name)
                                  THEN KeyError
                                  ELSE validate(policy, current_mode,
                                                unhealthy_services, tool_name,
                                                arguments)]
    /\ UNCHANGED <<policy, current_mode, unhealthy_services, services,
                   fleet_size, execution_log, in_flight>>

NextStartup == Construct \/ ValidateLoaded

SpecStartup == InitStartup /\ [][NextStartup]_vars

\* C24 (as claimed): the constructor leaves an engine only for a document
\* that has every required key, and no validate call of a running engine
\* fails on a key that the document lacks.
C24_IncompleteDocumentRejected ==
    /\ Constructed => Complete(policy)
    /\ response.op = "validate" => response.decision # KeyError

\* C26 (as claimed): once the engine is constructed its current mode is a
\* mode that the policy document declares.
C26_ModeDeclared ==
    Constructed => current_mode \in DOMAIN policy.modes

(***************************************************************************)
(* The execution log near its cap: CloudInfrastructure._log_action on logs *)
(* that earlier status checks and health changes have filled.              *)
(***************************************************************************)
\* A log of n entries left by status checks with a health change every third
\* entry, the first one at an offset.
FilledLog(n, offset) ==
    [i \in 1..n |-> IF (i + offset) % 3 = 0
                    THEN "health_change" ELSE "get_service_status"]

InitLog ==
    /\ policy = OpsPolicy
    /\ current_mode = "NORMAL"
    /\ unhealthy_services = {}
    /\ services = [s \in ServiceNames |-> "healthy"]
    /\ fleet_size = InitialFleetSize
    /\ execution_log \in {FilledLog(n, offset) :
                            n \in (LogCap - 2)..LogCap, offset \in 0..2}
    /\ response = [op |-> "none", action |-> None, appended |-> 0]
    /\ in_flight = {}

\* One more action is logged.
LogAction ==
    \E action \in {"get_service_status", "health_change", "list_services"} :
        /\ response.appended < MaxAppends
        /\ execution_log' = _log_action(CloudInfra, action).execution_log
        /\ response' = [op |-> "_log_action", action |-> action,
                        appended |-> response.appended + 1]
        /\ UNCHANGED <<policy, current_mode, unhealthy_services, services,
                       fleet_size, in_flight>>

NextLog == LogAction

SpecLog == InitLog /\ [][NextLog]_vars

\* C25: logging an action leaves at most 100 entries; on a log that is not
\* full it appends the entry, and on a full log it drops the oldest entry,
\* keeps the others in their order and puts the new entry last.
C25_LogCapped ==
    [][response'.op = "_log_action"
        => /\ Len(execution_log') <= LogCap
           /\ execution_log' =
                IF Len(execution_log) < LogCap
                THEN Append(execution_log, response'.action)
                ELSE Append(Tail(execution_log), response'.action)]_vars

\* Three actions were logged on a log of at least 98 entries: the log is
\* full, its oldest entry was dropped and the last action is its last entry.
C25_Witness ==
    /\ response.op = "_log_action"
    /\ response.appended = 3
    /\ Len(execution_log) = LogCap
    /\ execution_log[LogCap] = response.action

(***************************************************************************)
(* Health tracking, termination and frame properties of the gateway,       *)
(* checked under Spec.                                                     *)
(***************************************************************************)
\* The last request was a status check of a single resource that was
\* answered.
SingleChecked ==
    /\ Executed
    /\ response.tool_name = "get_service_status"
    /\ ArgServiceName(response.arguments) # None
    /\ response.answer.http = 200

\* C31 (as claimed): after a status check of a single resource, the resource
\* is in the unhealthy set when its health is degraded or critical, and
\* outside the set for every other health value and when the health map has
\* no entry for it.
C31_SingleCheckTracksHealth ==
    SingleChecked
        => LET resource == ArgServiceName(response.arguments)
           IN  resource \in unhealthy_services
                    <=> resource \in get_unhealthy_services(CloudInfra)

\* The last request was a status check without a service_name that was
\* answered.
AllChecked ==
    /\ Executed
    /\ response.tool_name = "get_service_status"
    /\ ArgServiceName(response.arguments) = None
    /\ response.answer.http = 200

\* C32 (as claimed): after a status check without a service_name, the
\* unhealthy set is exactly the set of resources whose health is degraded or
\* critical.
C32_FullCheckRebuildsSet ==
    AllChecked => unhealthy_services = get_unhealthy_services(CloudInfra)

\* The terminal outcomes of a tool request. COMPLETED is a ToolResponse with
\* success true; REJECTED is a ToolResponse with success false (a policy
\* denial or a reported execution error) or the 400 the handler raises for
\* an execution_mode it does not know. An exception the handler does not
\* catch (a 500 of the framework) is neither.
Completed(answer) == answer.http = 200 /\ answer.success

Rejected(answer) == (answer.http = 200 /\ ~answer.success) \/ answer.http = 400

\* How often the operation of a tool was invoked, by the entries it left in
\* an execution log.
Invocations(log, tool_name) ==
    Cardinality({i \in DOMAIN log : log[i] = LogEntry(tool_name)})

\* C33 (as claimed): every execute_tool request ends in exactly one of
\* COMPLETED and REJECTED, and its handling invokes the underlying operation
\* at most once (no retry of a denied or failed request).
C33_OneTerminalOutcome ==
    [][response'.op = "execute_tool"
        => /\ Completed(response'.answer) # Rejected(response'.answer)
           /\ Invocations(execution_log', response'.tool_name)
                <= Invocations(execution_log, response'.tool_name) + 1]_vars

\* The step runs restart_service on the infrastructure: the tool function
\* was called and left its entry in the execution log.
RestartExecutes ==
    /\ response'.op = "execute_tool"
    /\ response'.tool_name = "restart_service"
    /\ Invocations(execution_log', "restart_service")
            > Invocations(execution_log, "restart_service")

\* C34: whenever restart_service runs on the infrastructure in EMERGENCY
\* mode with the service restriction enabled, the health map's value of the
\* service it restarts was degraded or critical right before: a service
\* whose value is healthy (or any other value) is never restarted, and no
\* health value is changed by a restart of a name the health map lacks.
C34_HealthyNeverRestarted ==
    [][(RestartGated /\ RestartExecutes)
        => LET R == ArgServiceName(response'.arguments)
           IN  /\ R \in DOMAIN services
                    => services[R] \in {"degraded", "critical"}
               /\ \A S \in DOMAIN services :
                    services[S] \notin {"degraded", "critical"}
                        => services'[S] = services[S]]_vars

\* A broken web-server was restarted in EMERGENCY mode without a status
\* check in between, while the other services were healthy and untouched.
C34_Witness ==
    /\ RestartSucceeded
    /\ RestartGated
    /\ ArgServiceName(response.arguments) = "web-server"
    /\ execution_log = <<"health_change", "restart_service", "health_change">>
    /\ \A S \in ServiceNames : services[S] = "healthy"
    /\ unhealthy_services = {}

(***************************************************************************)
(* What validate's decision depends on, checked under SpecValidate.        *)
(***************************************************************************)
\* Two argument maps carry the same service_name: both lack the key, or both
\* have it with the same value.
SameTarget(args, other) ==
    /\ ("service_name" \in args.keys) = ("service_name" \in other.keys)
    /\ "service_name" \in args.keys => args.service_name = other.service_name

\* C35: in the state of a validate call, every call for the same tool whose
\* argument map carries the same service_name gets the same outcome and the
\* same reason, whatever its other arguments and whatever its context map.
C35_DecisionIgnoresContext ==
    Validated
        => \A other \in ArgMaps, context \in Contexts :
                SameTarget(other, response.arguments)
                    => LET decision == validate_in_context(policy, current_mode,
                                            unhealthy_services, response.tool_name,
                                            other, context)
                       IN  /\ decision.allowed = response.decision.allowed
                           /\ decision.reason = response.decision.reason

\* A restart of the healthy web-server that also names a database was denied
\* as target-healthy while another service is registered.
C35_Witness ==
    /\ Validated
    /\ response.tool_name = "restart_service"
    /\ response.arguments = Args({"service_name", "db_name"}, "web-server", 0)
    /\ response.decision.reason = "Target service is not unhealthy"
    /\ unhealthy_services = {"ghost"}

(***************************************************************************)
(* Frame and error-handling properties of the endpoints, checked under     *)
(* Spec.                                                                   *)
(***************************************************************************)
\* C36: a set-mode request, accepted or refused, leaves the unhealthy set
\* and the health map as they were; a tool execution (a status check
\* included), an incident simulation and a fix-service leave the mode as it
\* was.
C36_ModeAndHealthIndependent ==
    [][/\ response'.op = "set_mode"
            => UNCHANGED <<unhealthy_services, services>>
       /\ response'.op \in {"execute_tool", "simulate_incident", "fix_service"}
            => UNCHANGED current_mode]_vars

\* A set-mode request to NORMAL was answered while web-server is critical
\* and registered, after an incident simulation and a status check.
C36_Witness ==
    /\ response.op = "set_mode"
    /\ response.mode = "NORMAL"
    /\ current_mode = "NORMAL"
    /\ unhealthy_services = {"web-server"}
    /\ services["web-server"] = "critical"
    /\ execution_log = <<"health_change", "get_service_status">>

\* C37 (as claimed): an incident simulation that names a resource absent
\* from the health map fails and leaves the unhealthy set and the health map
\* as they were, so that a restart of a name the health map lacks is denied
\* in EMERGENCY mode with the service restriction.
C37_UnknownIncidentChangesNothing ==
    [][/\ (response'.op = "simulate_incident"
           /\ response'.service \notin DOMAIN services)
            => /\ response'.answer.http # 200
               /\ UNCHANGED <<unhealthy_services, services>>
       /\ (/\ RestartGated
           /\ response'.op = "execute_tool"
           /\ response'.tool_name = "restart_service"
           /\ ArgServiceName(response'.arguments) \in Targets \ DOMAIN services)
            => response'.answer.policy_violation]_vars

====
